---- MODULE Spec2Model ----
(***************************************************************************)
(* Model of leptonai/cli/tuna.py: the deployment-name generator, the       *)
(* shortened-model-name deployment index, the model-state aggregation      *)
(* (_get_models_map), the name validator of train, and the commands        *)
(* train, run, remove and clear_failed_trainings on a workspace.           *)
(*                                                                         *)
(* A name is a sequence of one-character strings, so that slicing,        *)
(* concatenation, rindex and the substring test act on characters as the  *)
(* Python code does.  Job and deployment states are enum members and are  *)
(* kept as one token each.                                                 *)
(***************************************************************************)
EXTENDS Integers, Sequences, FiniteSets, TLC

VARIABLES
    tuna_folder_exists,   \* storage: DEFAULT_TUNA_FOLDER exists
    model_path_exists,    \* storage: DEFAULT_TUNA_MODEL_PATH exists
    dir_infos,            \* storage: listing of DEFAULT_TUNA_MODEL_PATH, in order;
                          \*   each entry [name, type, entries], entries = the
                          \*   number of entries inside that directory
    jobs,                 \* job inventory: sequence of [name, status]
    deployments,          \* deployment inventory: sequence of [name, status]
    model_name,           \* argument of _generate_model_deployment_name
    new_names,            \* the names returned by the calls made so far
    index_map,            \* last result of _build_shortened_model_name_deployment_map
    models_map,           \* last result of _get_models_map (insertion order kept)
    api_reads,            \* what the last _get_models_map call read from the API
    index_built,          \* the index has been built from the inventory
    calls,                \* the number of calls of the function under study
    dataset_exists,       \* storage: the training data file exists
    secrets,              \* secret inventory: the set of secret names
    outcome,              \* exit code and message of the last command
    run_created,          \* the deployments of the inventory that the run command
                          \*   created, each with the model it was created for
    accepted_names        \* the names that the train command's validator accepted

vars == <<tuna_folder_exists, model_path_exists, dir_infos, jobs, deployments,
          model_name, new_names, index_map, models_map, api_reads,
          index_built, calls, dataset_exists, secrets, outcome, run_created,
          accepted_names>>

cli_vars == <<dataset_exists, secrets, outcome, run_created, accepted_names>>

platform_vars == <<tuna_folder_exists, model_path_exists, dir_infos, jobs, deployments>>

-----------------------------------------------------------------------------
(* Bounds of the model. *)

MaxNameLen == 40
LongNameLen == 200
MaxDirs == 2
MaxDeployments == 2
MaxIndexDeployments == 3
MaxCalls == 2
ScanBlock == 32
MaxRunDeployments == 1

-----------------------------------------------------------------------------
(* Program constants. *)

\* the platform's name length limit, in the candidate's truncation index
NAME_LENGTH_LIMIT == 36
\* range(0, 999): the counters tried
COUNTER_RANGE == 999
\* the fallback keeps this many characters of prefix + model name
FALLBACK_KEEP == 32
\* random.choices(..., k=4)
RANDOM_K == 4
\* model_name[: 32 - len(TUNA_DEPLOYMENT_NAME_PREFIX)]
SHORTEN_LIMIT == 32

TUNA_DEPLOYMENT_NAME_PREFIX == <<"t", "u", "n", "a", "-">>
TUNA_TRAIN_JOB_NAME_PREFIX == <<"t", "r", "a", "i", "n", "-", "j", "o", "b", "-">>

\* None; the code never stores an empty string or an empty list where it stores
\* None (a job name, a generated name, the deployments of a record), so the
\* empty sequence stands for it
None == <<>>

\* no command has run yet
NoOutcome == [code |-> 0, message |-> "none"]

-----------------------------------------------------------------------------
(* Python string operations. *)

Digits == <<"0", "1", "2", "3", "4", "5", "6", "7", "8", "9">>

\* str(n) for n >= 0
RECURSIVE Str(_)
Str(n) == IF n < 10 THEN <<Digits[n + 1]>>
          ELSE Str(n \div 10) \o <<Digits[(n % 10) + 1]>>

\* s[:k] for k >= 0
Take(s, k) == IF k >= Len(s) THEN s ELSE SubSeq(s, 1, k)

\* s[k:] for k >= 0
Drop(s, k) == IF k >= Len(s) THEN <<>> ELSE SubSeq(s, k + 1, Len(s))

\* sub in s
Contains(s, sub) ==
    \E i \in 0..(Len(s) - Len(sub)) : SubSeq(s, i + 1, i + Len(sub)) = sub

\* s.rindex(ch), 0-based; the callers only apply it to a string holding ch
RIndex(s, ch) ==
    (CHOOSE i \in 1..Len(s) : s[i] = ch /\ \A j \in (i + 1)..Len(s) : s[j] # ch) - 1

-----------------------------------------------------------------------------
(* Naming helpers. *)

_generate_job_name(name) == TUNA_TRAIN_JOB_NAME_PREFIX \o name

\* mutant of Candidate: the budget of the counter is fixed at one digit
CandidateOneDigit(base_name, counter) ==
    Take(base_name, NAME_LENGTH_LIMIT - 2) \o <<"-">> \o Str(counter)

\* f"{base_name[:36 - (len(str(counter)) + 1)]}-{counter}"
Candidate(base_name, counter) ==
    Take(base_name, NAME_LENGTH_LIMIT - (Len(Str(counter)) + 1))
        \o <<"-">> \o Str(counter)

\* {deployment.metadata.name for deployment in deployments}
DeploymentNamesSet(deps) == {deps[i].name : i \in 1..Len(deps)}

-----------------------------------------------------------------------------
(* _generate_model_deployment_name *)

\* mutant of ScanCounters: the candidate is returned without the membership test
ScanCountersNoCheck(base_name, deployment_names_set, counter, stop) ==
    IF counter >= stop THEN None ELSE Candidate(base_name, counter)

\* the body of "for i in range(0, 999)" for the counters counter..stop-1:
\* the first candidate that is not in deployment_names_set, None if all are
RECURSIVE ScanCounters(_, _, _, _)
ScanCounters(base_name, deployment_names_set, counter, stop) ==
    IF counter >= stop THEN None
    ELSE LET new_name == Candidate(base_name, counter)
         IN  IF new_name \notin deployment_names_set THEN new_name
             ELSE ScanCounters(base_name, deployment_names_set, counter + 1, stop)

\* the counters are scanned in order, ScanBlock at a time (the blocks only
\* bound the depth of evaluation, the order of the scan is the loop's)

RECURSIVE ForLoop(_, _, _)
ForLoop(base_name, deployment_names_set, counter) ==
    IF counter >= COUNTER_RANGE THEN None
    ELSE LET stop == IF counter + ScanBlock > COUNTER_RANGE THEN COUNTER_RANGE
                     ELSE counter + ScanBlock
             found == ScanCounters(base_name, deployment_names_set, counter, stop)
         IN  IF found # None THEN found
             ELSE ForLoop(base_name, deployment_names_set, stop)

\* the return after the loop
Fallback(name, random_string) ==
    Take(TUNA_DEPLOYMENT_NAME_PREFIX \o name, FALLBACK_KEEP) \o random_string

\* mutant of _generate_model_deployment_name: the random suffix is used as soon
\* as the candidate of counter 0 is taken
GenerateRandomOnCollision(name, deps, random_string) ==
    LET deployment_names_set == DeploymentNamesSet(deps)
        base_name == TUNA_DEPLOYMENT_NAME_PREFIX \o name
    IN  IF Candidate(base_name, 0) \notin deployment_names_set
        THEN Candidate(base_name, 0)
        ELSE Fallback(name, random_string)

\* random_string is the outcome of random.choices(ascii_letters + digits, k=4)
_generate_model_deployment_name(name, deps, random_string) ==
    LET deployment_names_set == DeploymentNamesSet(deps)
        base_name == TUNA_DEPLOYMENT_NAME_PREFIX \o name
        found == ForLoop(base_name, deployment_names_set, 0)
    IN  IF found # None THEN found ELSE Fallback(name, random_string)

-----------------------------------------------------------------------------
(* States. *)

\* TunaModelState
Training == "Training"
Ready == "Ready"
Running == "Running"
TrainFailed == "Train Failed"
Stopped == "Stopped"

\* the deployment states that make the aggregate status Running
RunningDeploymentStates == {"Ready", "Starting", "Updating"}

\* the job states collected in running_job_set
RunningJobStates == {"Running", "Starting"}

\* the job state collected in failed_job_set
FailedJobState == "Failed"

-----------------------------------------------------------------------------
(* _build_shortened_model_name_deployment_map *)

\* deployment_name[: deployment_name.rindex("-")][len(TUNA_DEPLOYMENT_NAME_PREFIX):]
ShortenedModelName(deployment_name) ==
    Drop(Take(deployment_name, RIndex(deployment_name, "-")),
         Len(TUNA_DEPLOYMENT_NAME_PREFIX))

\* deployment_name + " (" + deployment.status.state + ")"
DeploymentString(deployment) ==
    deployment.name \o <<" ", "(">> \o <<deployment.status>> \o <<")">>

\* mutant of IndexStep: a deployment that is not running resets the aggregate
\* status of its key to Stopped
IndexStepLastWins(map, deployment) ==
    IF ~Contains(deployment.name, TUNA_DEPLOYMENT_NAME_PREFIX) THEN map
    ELSE LET shortened_model_name == ShortenedModelName(deployment.name)
             status == IF deployment.status \in RunningDeploymentStates
                       THEN Running ELSE Stopped
             map1 == IF shortened_model_name \notin DOMAIN map
                     THEN (shortened_model_name :> <<status>>) @@ map
                     ELSE [map EXCEPT ![shortened_model_name][1] = status]
         IN  [map1 EXCEPT ![shortened_model_name] =
                  Append(@, DeploymentString(deployment))]

\* one iteration of the loop over the deployments; the map is a function from
\* the shortened names to the lists [aggregate status, string, string, ...]
IndexStep(map, deployment) ==
    IF ~Contains(deployment.name, TUNA_DEPLOYMENT_NAME_PREFIX) THEN map
    ELSE LET shortened_model_name == ShortenedModelName(deployment.name)
             present == shortened_model_name \in DOMAIN map
             map1 == IF deployment.status \in RunningDeploymentStates
                     THEN IF ~present
                          THEN (shortened_model_name :> <<Running>>) @@ map
                          ELSE [map EXCEPT ![shortened_model_name][1] = Running]
                     ELSE IF ~present
                          THEN (shortened_model_name :> <<Stopped>>) @@ map
                          ELSE map
         IN  [map1 EXCEPT ![shortened_model_name] =
                  Append(@, DeploymentString(deployment))]

RECURSIVE IndexLoop(_, _, _)
IndexLoop(deps, i, map) ==
    IF i > Len(deps) THEN map
    ELSE IndexLoop(deps, i + 1, IndexStep(map, deps[i]))

_build_shortened_model_name_deployment_map(deps) == IndexLoop(deps, 1, <<>>)

-----------------------------------------------------------------------------
(* _get_model_names, _model_train_completed, _get_models_map *)

\* the names of the entries of type "dir", in listing order
RECURSIVE DirNamesFrom(_, _)
DirNamesFrom(infos, i) ==
    IF i > Len(infos) THEN <<>>
    ELSE IF infos[i].type = "dir"
         THEN <<infos[i].name>> \o DirNamesFrom(infos, i + 1)
         ELSE DirNamesFrom(infos, i + 1)

_get_model_names(infos) == DirNamesFrom(infos, 1)

\* len(client.storage.get_dir(DEFAULT_TUNA_MODEL_PATH + "/" + model_name))
EntriesOf(infos, name) ==
    LET i == CHOOSE j \in 1..Len(infos) : infos[j].name = name /\ infos[j].type = "dir"
    IN  infos[i].entries

\* mutant of _model_train_completed: only a directory holding exactly the info
\* file counts as not completed
TrainCompletedUnlessOne(infos, name) == EntriesOf(infos, name) # 1

_model_train_completed(infos, name) == EntriesOf(infos, name) > 1

\* mutant of RunningJobSet: a job that is Starting is not counted
RunningJobSetOnlyRunning(js) ==
    {js[i].name : i \in {j \in 1..Len(js) : js[j].status = "Running"}}

\* the job names with status Running or Starting
RunningJobSet(js) == {js[i].name : i \in {j \in 1..Len(js) : js[j].status \in RunningJobStates}}

\* the job names with status Failed
FailedJobSet(js) == {js[i].name : i \in {j \in 1..Len(js) : js[j].status = FailedJobState}}

\* model_name[: 32 - len(TUNA_DEPLOYMENT_NAME_PREFIX)]
CurShortenModelName(name) == Take(name, SHORTEN_LIMIT - Len(TUNA_DEPLOYMENT_NAME_PREFIX))

TunaModel(folder_name, state, deps, job_name) ==
    [folder_name |-> folder_name, tuna_model_state |-> state,
     deployments |-> deps, job_name |-> job_name]

\* mutant of ModelRecord: the deployment index is consulted before the
\* completion of the training
ModelRecordDeploymentsFirst(name, infos, running_job_set, failed_job_set, model_deployment_map) ==
    LET job_name == _generate_job_name(name)
        cur_shorten_model_name == CurShortenModelName(name)
    IN  IF job_name \in running_job_set
        THEN TunaModel(name, Training, None, job_name)
        ELSE IF cur_shorten_model_name \in DOMAIN model_deployment_map
        THEN TunaModel(name, model_deployment_map[cur_shorten_model_name][1],
                       Tail(model_deployment_map[cur_shorten_model_name]), None)
        ELSE IF ~_model_train_completed(infos, name)
        THEN TunaModel(name, TrainFailed, None,
                       IF job_name \in failed_job_set THEN job_name ELSE None)
        ELSE TunaModel(name, Ready, None, None)

\* mutant of ModelRecord: the deployments of the record are taken from the
\* second string on (the slice starts one too far)
ModelRecordSliceOff(name, infos, running_job_set, failed_job_set, model_deployment_map) ==
    LET job_name == _generate_job_name(name)
        cur_shorten_model_name == CurShortenModelName(name)
    IN  IF ~_model_train_completed(infos, name) /\ job_name \notin running_job_set
        THEN TunaModel(name, TrainFailed, None,
                       IF job_name \in failed_job_set THEN job_name ELSE None)
        ELSE IF job_name \notin running_job_set
        THEN IF cur_shorten_model_name \in DOMAIN model_deployment_map
             THEN TunaModel(name, model_deployment_map[cur_shorten_model_name][1],
                            Tail(Tail(model_deployment_map[cur_shorten_model_name])),
                            None)
             ELSE TunaModel(name, Ready, None, None)
        ELSE TunaModel(name, Training, None, job_name)

\* the TunaModel that the loop body builds for one model name
ModelRecord(name, infos, running_job_set, failed_job_set, model_deployment_map) ==
    LET job_name == _generate_job_name(name)
    IN  IF ~_model_train_completed(infos, name) /\ job_name \notin running_job_set
        THEN TunaModel(name, TrainFailed, None,
                       IF job_name \in failed_job_set THEN job_name ELSE None)
        ELSE IF job_name \notin running_job_set
        THEN LET cur_shorten_model_name == CurShortenModelName(name)
             IN  IF cur_shorten_model_name \in DOMAIN model_deployment_map
                 THEN LET cur_deployment_info ==
                              model_deployment_map[cur_shorten_model_name]
                      IN  TunaModel(name, cur_deployment_info[1],
                                    Tail(cur_deployment_info), None)
                 ELSE TunaModel(name, Ready, None, None)
        ELSE TunaModel(name, Training, None, job_name)

\* mutant of DictPut: a new key is put in front
DictPutFront(map, record) == <<record>> \o map

\* model_names_map[model_name] = record, on a dict kept as the sequence of its
\* values in insertion order: an existing key keeps its place
DictPut(map, record) ==
    IF \E i \in 1..Len(map) : map[i].folder_name = record.folder_name
    THEN [i \in 1..Len(map) |->
             IF map[i].folder_name = record.folder_name THEN record ELSE map[i]]
    ELSE Append(map, record)

RECURSIVE ModelsLoop(_, _, _, _, _, _, _)
ModelsLoop(model_names, i, infos, running_job_set, failed_job_set, model_deployment_map, model_names_map) ==
    IF i > Len(model_names) THEN model_names_map
    ELSE ModelsLoop(model_names, i + 1, infos, running_job_set, failed_job_set,
                    model_deployment_map,
                    DictPut(model_names_map,
                            ModelRecord(model_names[i], infos, running_job_set,
                                        failed_job_set, model_deployment_map)))

\* mutant of StorageMissing: only the tuna folder is checked
StorageMissingFolderOnly(tuna_folder, model_path) == ~tuna_folder

\* the early returns of _get_models_map
StorageMissing(tuna_folder, model_path) == ~tuna_folder \/ ~model_path

\* result: the mapping returned; reads: the API calls made; index: the
\* deployment index built on the way (empty when the call returns early)
_get_models_map(tuna_folder, model_path, infos, js, deps) ==
    IF StorageMissing(tuna_folder, model_path)
    THEN [result |-> <<>>,
          reads |-> {"storage.check_exists"},
          index |-> <<>>]
    ELSE LET model_deployment_map == _build_shortened_model_name_deployment_map(deps)
         IN  [result |-> ModelsLoop(_get_model_names(infos), 1, infos,
                                    RunningJobSet(js), FailedJobSet(js),
                                    model_deployment_map, <<>>),
              reads |-> {"storage.check_exists", "job.list_all",
                         "deployment.list_all", "storage.get_dir"},
              index |-> model_deployment_map]

-----------------------------------------------------------------------------
(* Inputs of the naming specification. *)

\* a model name of n characters, with a hyphen at position h when 1 < h < n
NameOf(n, h) == [i \in 1..n |-> IF i = h /\ 1 < h /\ h < n THEN "-" ELSE "a"]

HyphenAts == {0, 2, 29}

NamingModelNames ==
    {NameOf(n, h) : n \in (1..MaxNameLen) \cup {LongNameLen}, h \in HyphenAts}

\* the names on which the exhaustion of all counters is explored
ExhaustLens == {1, 5, 28, MaxNameLen}

\* outcomes of the random choice that the model explores
RandomStrings ==
    {s \in {<<"a", "a", "a", "a">>, <<"Z", "7", "b", "Q">>} : Len(s) = RANDOM_K}

Ready1(n) == [name |-> n, status |-> "Ready"]

\* the inventory holding the candidates of the counters lo..hi-1
TakenRange(name, lo, hi) ==
    [i \in 1..(hi - lo) |->
        Ready1(Candidate(TUNA_DEPLOYMENT_NAME_PREFIX \o name, lo + i - 1))]

SmallTaken == {0, 1, 2, 10, 11, 100, 101}

NamingInventories(name) ==
    \* the first k counters taken
    {TakenRange(name, 0, k) : k \in SmallTaken}
    \* a hole at counter k - 1, the next one taken again
    \cup {TakenRange(name, 0, k - 1) \o TakenRange(name, k, k + 1) :
            k \in SmallTaken \ {0}}
    \cup (IF Len(name) \in ExhaustLens
          THEN {TakenRange(name, 0, COUNTER_RANGE),
                TakenRange(name, 0, COUNTER_RANGE - 1),
                TakenRange(name, 0, COUNTER_RANGE)
                    \o <<Ready1(Fallback(name, <<"a", "a", "a", "a">>))>>}
          ELSE {})

-----------------------------------------------------------------------------
(* Specification of the naming functions: the inputs are drawn, the        *)
(* function is called MaxCalls times on the same inventory.                 *)

InitNaming ==
    /\ model_name \in NamingModelNames
    /\ deployments \in NamingInventories(model_name)
    /\ new_names = <<>>
    /\ tuna_folder_exists = TRUE
    /\ model_path_exists = TRUE
    /\ dir_infos = <<>>
    /\ jobs = <<>>
    /\ index_map = <<>>
    /\ index_built = FALSE
    /\ models_map = <<>>
    /\ api_reads = {}
    /\ calls = 0
    /\ dataset_exists = FALSE
    /\ secrets = {}
    /\ outcome = NoOutcome
    /\ run_created = {}
    /\ accepted_names = {}

GenerateDeploymentName ==
    /\ calls < MaxCalls
    /\ calls' = calls + 1
    /\ \E random_string \in RandomStrings :
         new_names' = Append(new_names,
             _generate_model_deployment_name(model_name, deployments, random_string))
    /\ UNCHANGED <<platform_vars, model_name, index_map, models_map, api_reads,
                   index_built, cli_vars>>

NextNaming == GenerateDeploymentName

SpecNaming == InitNaming /\ [][NextNaming]_vars

-----------------------------------------------------------------------------
(* Inputs of the index and aggregation specifications. *)

\* the sequences of at most n elements of S
SeqsUpTo(S, n) == UNION {[1..k -> S] : k \in 0..n}

\* no two entries of the inventory or listing have the same name
DistinctNames(seq) == \A i, j \in 1..Len(seq) : i # j => seq[i].name # seq[j].name

ShortModel == <<"a">>
HyphenModel == <<"a", "-", "0">>
\* a model name longer than the shortened form
LongModel == NameOf(SHORTEN_LIMIT - Len(TUNA_DEPLOYMENT_NAME_PREFIX) + 1, 0)

DeploymentName(name, counter) == Candidate(TUNA_DEPLOYMENT_NAME_PREFIX \o name, counter)

\* deployment names of the index specification: two of one model, one of a
\* model whose name ends like a counter, one without the prefix and one that
\* holds the prefix in the middle
IndexDeploymentNames ==
    {DeploymentName(ShortModel, 0), DeploymentName(ShortModel, 1),
     DeploymentName(HyphenModel, 0),
     <<"w", "e", "b", "-", "0">>,
     <<"x", "-">> \o DeploymentName(ShortModel, 0)}

IndexDeploymentStates == {"Ready", "Starting", "Updating", "Stopped"}

IndexInventories ==
    {deps \in SeqsUpTo([name : IndexDeploymentNames, status : IndexDeploymentStates],
                       MaxIndexDeployments) : DistinctNames(deps)}

\* model directories of the aggregation specification
AggModelNames == {ShortModel, LongModel}

\* entries inside a model directory: none, the info file, the info file and output
DirEntryCounts == {0, 1, 2}

AggDirInfos ==
    [name : AggModelNames, type : {"dir"}, entries : DirEntryCounts]
    \cup [name : AggModelNames, type : {"file"}, entries : {0}]

AggListings == {infos \in SeqsUpTo(AggDirInfos, MaxDirs) : DistinctNames(infos)}

JobStates == {"Running", "Starting", "Failed", "Completed"}

\* a job inventory: each model's training job is absent or in one of JobStates
JobsOf(names, status_of) ==
    LET RECURSIVE Build(_)
        Build(rest) ==
            IF rest = <<>> THEN <<>>
            ELSE (IF status_of[Head(rest)] = "absent" THEN <<>>
                  ELSE <<[name |-> _generate_job_name(Head(rest)),
                          status |-> status_of[Head(rest)]]>>)
                 \o Build(Tail(rest))
    IN  Build(names)

AggJobInventories ==
    {JobsOf(<<ShortModel, LongModel>>, f) :
        f \in [AggModelNames -> JobStates \cup {"absent"}]}

\* deployments of the aggregation specification: two of the short model, one
\* indexed under the shortened form of the long model's name, and the one the
\* generator makes for the long model
AggDeploymentNames ==
    {DeploymentName(ShortModel, 0), DeploymentName(ShortModel, 1),
     DeploymentName(CurShortenModelName(LongModel), 0),
     DeploymentName(LongModel, 0)}

AggDeploymentStates == {"Ready", "Stopped"}

AggInventories ==
    {deps \in SeqsUpTo([name : AggDeploymentNames, status : AggDeploymentStates],
                       MaxDeployments) : DistinctNames(deps)}

-----------------------------------------------------------------------------
(* Specification of the deployment index: the inventory is drawn, the      *)
(* index is built.                                                          *)

InitIndex ==
    /\ deployments \in IndexInventories
    /\ index_map = <<>>
    /\ index_built = FALSE
    /\ tuna_folder_exists = TRUE
    /\ model_path_exists = TRUE
    /\ dir_infos = <<>>
    /\ jobs = <<>>
    /\ model_name = <<>>
    /\ new_names = <<>>
    /\ models_map = <<>>
    /\ api_reads = {}
    /\ calls = 0
    /\ dataset_exists = FALSE
    /\ secrets = {}
    /\ outcome = NoOutcome
    /\ run_created = {}
    /\ accepted_names = {}

BuildShortenedModelNameDeploymentMap ==
    /\ ~index_built
    /\ index_map' = _build_shortened_model_name_deployment_map(deployments)
    /\ index_built' = TRUE
    /\ UNCHANGED <<platform_vars, model_name, new_names, models_map, api_reads, calls,
                   cli_vars>>

NextIndex == BuildShortenedModelNameDeploymentMap

SpecIndex == InitIndex /\ [][NextIndex]_vars

-----------------------------------------------------------------------------
(* Specification of the aggregation: a snapshot of the storage, the job    *)
(* inventory and the deployment inventory is drawn, _get_models_map runs.  *)

\* the models root is a folder of the tuna folder tree
\* (_check_or_create_tuna_folder_tree), so it exists only inside the tuna
\* folder, and a listing has entries only when the models root exists
InitAgg ==
    /\ tuna_folder_exists \in BOOLEAN
    /\ model_path_exists \in BOOLEAN
    /\ model_path_exists => tuna_folder_exists
    /\ dir_infos \in AggListings
    /\ ~model_path_exists => dir_infos = <<>>
    /\ jobs \in AggJobInventories
    /\ deployments \in AggInventories
    /\ index_map = <<>>
    /\ index_built = FALSE
    /\ model_name = <<>>
    /\ new_names = <<>>
    /\ models_map = <<>>
    /\ api_reads = {}
    /\ calls = 0
    /\ dataset_exists = FALSE
    /\ secrets = {}
    /\ outcome = NoOutcome
    /\ run_created = {}
    /\ accepted_names = {}

GetModelsMap ==
    /\ calls = 0
    /\ LET got == _get_models_map(tuna_folder_exists, model_path_exists,
                                  dir_infos, jobs, deployments)
       IN  /\ models_map' = got.result
           /\ api_reads' = got.reads
           /\ index_map' = got.index
    /\ calls' = calls + 1
    /\ UNCHANGED <<platform_vars, model_name, new_names, index_built, cli_vars>>

NextAgg == GetModelsMap

SpecAgg == InitAgg /\ [][NextAgg]_vars

-----------------------------------------------------------------------------
(* Claims about _generate_model_deployment_name (SpecNaming). *)

\* the set of existing deployment names of the state
ExistingNames == {deployments[i].name : i \in 1..Len(deployments)}

\* the candidate of counter c for the model name of the state
CandidateOf(c) == Candidate(TUNA_DEPLOYMENT_NAME_PREFIX \o model_name, c)

\* some counter in 0..998 has a candidate that is not an existing name
SomeCounterFree ==
    LET names == ExistingNames
        base_name == TUNA_DEPLOYMENT_NAME_PREFIX \o model_name
    IN  \E c \in 0..(COUNTER_RANGE - 1) : Candidate(base_name, c) \notin names

\* C4: no name returned by _generate_model_deployment_name is longer than 36
\* characters, whatever the length of the model name, the number of digits of
\* the counter reached, or the outcome of the random choice of the fallback.
C4_NameWithinLimit ==
    \A i \in 1..Len(new_names) : Len(new_names[i]) <= 36

\* a 200-character model name with the counters 0..99 taken: the name
\* returned carries the three-digit counter 100 and is exactly 36 long
C4_Witness ==
    /\ Len(model_name) = LongNameLen
    /\ Len(deployments) = 100
    /\ Len(new_names) >= 1
    /\ Len(new_names[1]) = 36
    /\ SubSeq(new_names[1], 33, 36) = <<"-", "1", "0", "0">>

\* C5: when some counter in 0..998 is free, the name returned is not an
\* existing name and is the candidate of a counter below which every counter's
\* candidate is an existing name: the candidate of the smallest free counter.
C5_SmallestFreeCounter ==
    (new_names # <<>> /\ SomeCounterFree) =>
        LET names == ExistingNames
            base_name == TUNA_DEPLOYMENT_NAME_PREFIX \o model_name
        IN  \A i \in 1..Len(new_names) :
                /\ new_names[i] \notin names
                /\ \E c \in 0..(COUNTER_RANGE - 1) :
                      /\ new_names[i] = Candidate(base_name, c)
                      /\ \A d \in 0..(c - 1) : Candidate(base_name, d) \in names

\* counters 0..98 and 100 are taken, 99 is free: the call returned the
\* candidate of 99
C5_Witness ==
    /\ Len(new_names) >= 1
    /\ Len(deployments) = 100
    /\ CandidateOf(100) \in ExistingNames
    /\ CandidateOf(99) \notin ExistingNames
    /\ new_names[1] = CandidateOf(99)

\* C6: when every counter candidate is an existing name, the name returned is
\* at most 36 characters long and is not an existing name, for every outcome
\* of the random choice.
C6_FallbackUnique ==
    (new_names # <<>> /\ ~SomeCounterFree) =>
        LET names == ExistingNames
        IN  \A i \in 1..Len(new_names) :
                /\ Len(new_names[i]) <= 36
                /\ new_names[i] \notin names

\* C7: every name that _generate_model_deployment_name returns for a model
\* holds the deployment prefix and is indexed under the key by which
\* _get_models_map looks the model up.
C7_ShorteningConsistent ==
    \A i \in 1..Len(new_names) :
        /\ Contains(new_names[i], TUNA_DEPLOYMENT_NAME_PREFIX)
        /\ ShortenedModelName(new_names[i]) = CurShortenModelName(model_name)

\* C8: when some counter is free, all calls made on the same model name and
\* the same inventory return the same name, whatever the random outcomes.
C8_Deterministic ==
    (Len(new_names) >= 2 /\ SomeCounterFree) =>
        \A i, j \in 1..Len(new_names) : new_names[i] = new_names[j]

\* two calls were made on an inventory of ten deployments and agree
C8_Witness ==
    /\ Len(new_names) >= 2
    /\ Len(deployments) = 10
    /\ SomeCounterFree
    /\ new_names[1] = new_names[2]
    /\ new_names[1] = CandidateOf(10)

-----------------------------------------------------------------------------
(* Claims about _build_shortened_model_name_deployment_map (SpecIndex). *)

\* the positions of the inventory whose deployment is indexed under key
IndexedUnder(key) ==
    {i \in 1..Len(deployments) :
        /\ Contains(deployments[i].name, TUNA_DEPLOYMENT_NAME_PREFIX)
        /\ ShortenedModelName(deployments[i].name) = key}

\* C3: the index has a key exactly for the shortened names of the deployments
\* that hold the prefix, and the aggregate status of a key is Running iff one
\* of the deployments indexed under it is Ready, Starting or Updating, and
\* Stopped otherwise, in whatever order the inventory lists them.
C3_AggregateStatus ==
    index_built =>
        /\ \A i \in 1..Len(deployments) :
               Contains(deployments[i].name, TUNA_DEPLOYMENT_NAME_PREFIX)
                   => ShortenedModelName(deployments[i].name) \in DOMAIN index_map
        /\ \A key \in DOMAIN index_map :
               /\ IndexedUnder(key) # {}
               /\ index_map[key][1] =
                      IF \E i \in IndexedUnder(key) :
                             deployments[i].status \in {"Ready", "Starting", "Updating"}
                      THEN "Running" ELSE "Stopped"

\* a running deployment of a model is listed before a stopped one of the same
\* model, and the aggregate status of the model's key is Running
C3_Witness ==
    /\ index_built
    /\ Len(deployments) = 3
    /\ deployments[1] = [name |-> DeploymentName(ShortModel, 1), status |-> "Updating"]
    /\ deployments[2] = [name |-> DeploymentName(ShortModel, 0), status |-> "Stopped"]
    /\ ShortModel \in DOMAIN index_map
    /\ index_map[ShortModel][1] = "Running"

-----------------------------------------------------------------------------
(* Claims about _get_models_map (SpecAgg). *)

\* the call has been made on a storage that holds both folders
Aggregated == calls = 1 /\ tuna_folder_exists /\ model_path_exists

\* the job named after the model is in the inventory as Running or Starting
HasRunningJob(name) ==
    \E j \in 1..Len(jobs) :
        /\ jobs[j].name = TUNA_TRAIN_JOB_NAME_PREFIX \o name
        /\ jobs[j].status \in {"Running", "Starting"}

\* the records of the result that are stored for the model
RecordsOf(name) ==
    {models_map[k] : k \in {n \in 1..Len(models_map) : models_map[n].folder_name = name}}

\* C1: a model directory with at most one entry and no Running or Starting
\* job of its job name has a record of state TrainFailed, whatever the
\* deployment inventory holds.
C1_TrainFailed ==
    Aggregated =>
        \A i \in 1..Len(dir_infos) :
            (/\ dir_infos[i].type = "dir"
             /\ dir_infos[i].entries <= 1
             /\ ~HasRunningJob(dir_infos[i].name))
            => /\ RecordsOf(dir_infos[i].name) # {}
               /\ \A r \in RecordsOf(dir_infos[i].name) :
                      r.tuna_model_state = "Train Failed"

\* the short model has only its info file and no job, a Ready deployment of
\* the inventory is indexed under its name, and its record is TrainFailed
C1_Witness ==
    /\ Aggregated
    /\ \E i \in 1..Len(dir_infos) :
           dir_infos[i] = [name |-> ShortModel, type |-> "dir", entries |-> 1]
    /\ ~HasRunningJob(ShortModel)
    /\ \E j \in 1..Len(deployments) :
           deployments[j] = [name |-> DeploymentName(ShortModel, 0), status |-> "Ready"]
    /\ \E r \in RecordsOf(ShortModel) : r.tuna_model_state = "Train Failed"

\* C2: a model directory whose job name is Running or Starting in the job
\* inventory has a record of state Training whose job_name is the job name,
\* whatever the deployment inventory and the directory hold.
C2_Training ==
    Aggregated =>
        \A i \in 1..Len(dir_infos) :
            (dir_infos[i].type = "dir" /\ HasRunningJob(dir_infos[i].name))
            => /\ RecordsOf(dir_infos[i].name) # {}
               /\ \A r \in RecordsOf(dir_infos[i].name) :
                      /\ r.tuna_model_state = "Training"
                      /\ r.job_name = TUNA_TRAIN_JOB_NAME_PREFIX \o dir_infos[i].name

\* the short model has output files and a Ready deployment, its job is
\* Starting, and its record is Training
C2_Witness ==
    /\ Aggregated
    /\ \E i \in 1..Len(dir_infos) :
           dir_infos[i] = [name |-> ShortModel, type |-> "dir", entries |-> 2]
    /\ \E j \in 1..Len(jobs) :
           jobs[j] = [name |-> _generate_job_name(ShortModel), status |-> "Starting"]
    /\ \E j \in 1..Len(deployments) :
           deployments[j] = [name |-> DeploymentName(ShortModel, 0), status |-> "Ready"]
    /\ \E r \in RecordsOf(ShortModel) :
           r.tuna_model_state = "Training" /\ r.job_name = _generate_job_name(ShortModel)

\* the deployments of the inventory indexed under key, in inventory order
DeploymentsUnder(key) ==
    SelectSeq(deployments,
              LAMBDA d : /\ Contains(d.name, TUNA_DEPLOYMENT_NAME_PREFIX)
                         /\ ShortenedModelName(d.name) = key)

\* C9: for a model whose directory has more than one entry and whose job is
\* not Running or Starting: if the index has an entry for its shortened name,
\* the record's state is the aggregate status of the entry and its deployments
\* are the strings "<name> (<status>)" of the deployments indexed under that
\* key, each once, in inventory order; if not, the state is Ready and the
\* record has no deployments.
C9_DeploymentsOfReadyModel ==
    Aggregated =>
        \A i \in 1..Len(dir_infos) :
            (/\ dir_infos[i].type = "dir"
             /\ dir_infos[i].entries > 1
             /\ ~HasRunningJob(dir_infos[i].name))
            => LET key == CurShortenModelName(dir_infos[i].name)
                   under == DeploymentsUnder(key)
               IN  /\ RecordsOf(dir_infos[i].name) # {}
                   /\ \A r \in RecordsOf(dir_infos[i].name) :
                          IF key \in DOMAIN index_map
                          THEN /\ r.tuna_model_state = index_map[key][1]
                               /\ r.deployments =
                                      [k \in 1..Len(under) |->
                                          under[k].name \o <<" ", "(">>
                                              \o <<under[k].status>> \o <<")">>]
                               /\ Len(r.deployments) >= 1
                          ELSE /\ r.tuna_model_state = "Ready"
                               /\ r.deployments = None

\* the short model is trained and has two deployments, listed Stopped then
\* Ready: its record is Running with the two strings in that order
C9_Witness ==
    /\ Aggregated
    /\ \E i \in 1..Len(dir_infos) :
           dir_infos[i] = [name |-> ShortModel, type |-> "dir", entries |-> 2]
    /\ ~HasRunningJob(ShortModel)
    /\ deployments = <<[name |-> DeploymentName(ShortModel, 1), status |-> "Stopped"],
                       [name |-> DeploymentName(ShortModel, 0), status |-> "Ready"]>>
    /\ \E r \in RecordsOf(ShortModel) :
           /\ r.tuna_model_state = "Running"
           /\ r.deployments =
                  << <<"t", "u", "n", "a", "-", "a", "-", "1", " ", "(", "Stopped", ")">>,
                     <<"t", "u", "n", "a", "-", "a", "-", "0", " ", "(", "Ready", ")">> >>

\* C10: when the tuna folder or the models root is missing, the call returns
\* the empty mapping and has read neither the job inventory, nor the
\* deployment inventory, nor a directory listing.
C10_MissingRootGivesEmpty ==
    (calls = 1 /\ (~tuna_folder_exists \/ ~model_path_exists)) =>
        /\ models_map = <<>>
        /\ api_reads \cap {"job.list_all", "deployment.list_all", "storage.get_dir"} = {}

\* the tuna folder exists without the models root, jobs and deployments exist
C10_Witness ==
    /\ calls = 1
    /\ tuna_folder_exists
    /\ ~model_path_exists
    /\ jobs # <<>>
    /\ deployments # <<>>
    /\ models_map = <<>>
    /\ api_reads = {"storage.check_exists"}

\* C11 (as claimed): a TrainFailed record has no job_name exactly when no job
\* of the model's job name is in the job inventory, and carries the job name
\* whenever such a job is in the inventory.
C11_JobNameIffJobExists ==
    Aggregated =>
        \A k \in 1..Len(models_map) :
            models_map[k].tuna_model_state = "Train Failed" =>
                LET job_name == TUNA_TRAIN_JOB_NAME_PREFIX \o models_map[k].folder_name
                    extant == \E j \in 1..Len(jobs) : jobs[j].name = job_name
                IN  /\ (models_map[k].job_name = None) <=> ~extant
                    /\ extant => models_map[k].job_name = job_name

\* the directory entries of type "dir", in listing order
DirEntries == SelectSeq(dir_infos, LAMBDA e : e.type = "dir")

\* C12: the mapping has one record per entry of type directory under the
\* models root, named after it, in the order of the listing; the other
\* entries give no record.
C12_OneRecordPerDirectoryInOrder ==
    Aggregated =>
        /\ Len(models_map) = Len(DirEntries)
        /\ \A k \in 1..Len(models_map) :
               models_map[k].folder_name = DirEntries[k].name

\* the long model is listed before the short one (the reverse of the sorted
\* order) and the records come in that order
C12_Witness ==
    /\ Aggregated
    /\ Len(dir_infos) = 2
    /\ dir_infos[1].name = LongModel /\ dir_infos[1].type = "dir"
    /\ dir_infos[2].name = ShortModel /\ dir_infos[2].type = "dir"
    /\ Len(models_map) = 2
    /\ models_map[1].folder_name = LongModel
    /\ models_map[2].folder_name = ShortModel

\* C15 (as claimed): a model directory with zero entries has no record, or a
\* record of state Unknown.
C15_EmptyDirectoryUnknownOrSkipped ==
    Aggregated =>
        \A i \in 1..Len(dir_infos) :
            (dir_infos[i].type = "dir" /\ dir_infos[i].entries = 0)
            => \A r \in RecordsOf(dir_infos[i].name) : r.tuna_model_state = ""

\* C15 (amended): a model directory with zero entries is classified like one
\* that holds only the info file: Training, with the job name, when its job is
\* Running or Starting, and TrainFailed otherwise.
C15_EmptyDirectoryNotCompleted ==
    Aggregated =>
        \A i \in 1..Len(dir_infos) :
            (dir_infos[i].type = "dir" /\ dir_infos[i].entries = 0)
            => /\ RecordsOf(dir_infos[i].name) # {}
               /\ \A r \in RecordsOf(dir_infos[i].name) :
                      IF HasRunningJob(dir_infos[i].name)
                      THEN /\ r.tuna_model_state = "Training"
                           /\ r.job_name = TUNA_TRAIN_JOB_NAME_PREFIX \o dir_infos[i].name
                      ELSE r.tuna_model_state = "Train Failed"

\* the short model's directory is empty, no job of it is in the inventory, and
\* its record is TrainFailed
C15_Witness ==
    /\ Aggregated
    /\ \E i \in 1..Len(dir_infos) :
           dir_infos[i] = [name |-> ShortModel, type |-> "dir", entries |-> 0]
    /\ \A j \in 1..Len(jobs) : jobs[j].name # _generate_job_name(ShortModel)
    /\ \E r \in RecordsOf(ShortModel) : r.tuna_model_state = "Train Failed"

-----------------------------------------------------------------------------
(* The name validator of the train command. *)

LowerLetters ==
    {"a", "b", "c", "d", "e", "f", "g", "h", "i", "j", "k", "l", "m",
     "n", "o", "p", "q", "r", "s", "t", "u", "v", "w", "x", "y", "z"}

DigitChars == {Digits[i] : i \in 1..Len(Digits)}

\* check_name_regex: the name consists of lower case alphanumeric characters
\* or "-", starts with an alphabetical character and ends with an
\* alphanumeric character
check_name_regex(full_name) ==
    /\ Len(full_name) >= 1
    /\ full_name[1] \in LowerLetters
    /\ full_name[Len(full_name)] \in LowerLetters \cup DigitChars
    /\ \A i \in 1..Len(full_name) :
           full_name[i] \in LowerLetters \cup DigitChars \cup {"-"}

\* the prefix given to the validator of train --name: the longer prefix
TrainNamePrefix ==
    IF Len(TUNA_DEPLOYMENT_NAME_PREFIX) > Len(TUNA_TRAIN_JOB_NAME_PREFIX)
    THEN TUNA_DEPLOYMENT_NAME_PREFIX
    ELSE TUNA_TRAIN_JOB_NAME_PREFIX

\* length_limit=36 of the validator of train --name
TRAIN_NAME_LENGTH_LIMIT == 36

\* mutant of _validate_name: the length of the full name is not checked
ValidateNameRegexOnly(prefix, length_limit, value) == check_name_regex(prefix \o value)

\* TRUE when _validate_name returns the value, FALSE when it raises
\* click.BadParameter; a length_limit of 0 is false like None
_validate_name(prefix, length_limit, value) ==
    LET full_name == prefix \o value
    IN  IF ~check_name_regex(full_name) THEN FALSE
        ELSE IF length_limit # 0 /\ Len(full_name) > length_limit THEN FALSE
        ELSE TRUE

\* click turns BadParameter into a usage error
BadParameter == [code |-> 2, message |-> "Invalid name"]

-----------------------------------------------------------------------------
(* Specification of the validator: names are given to the validator of     *)
(* train --name, and deployments are created for the accepted names as the *)
(* run command creates them.                                               *)

\* the longest name that the validator of train --name lets through
LongestTrainName == TRAIN_NAME_LENGTH_LIMIT - Len(TrainNamePrefix)

ValidateLens ==
    {1, LongestTrainName - 1, LongestTrainName, LongestTrainName + 1,
     LongestTrainName + 2, MaxNameLen}

\* names around the length limit, a name that ends like a counter, and names
\* that the regular expression decides
ValidateModelNames ==
    {NameOf(n, 0) : n \in ValidateLens}
    \cup {HyphenModel, <<>>, <<"A">>, <<"0">>, <<"-", "a">>, <<"a", "-">>,
          <<"a", "_", "b">>}

InitValidate ==
    /\ accepted_names = {}
    /\ deployments = <<>>
    /\ run_created = {}
    /\ outcome = NoOutcome
    /\ tuna_folder_exists = TRUE
    /\ model_path_exists = TRUE
    /\ dataset_exists = FALSE
    /\ secrets = {}
    /\ dir_infos = <<>>
    /\ jobs = <<>>
    /\ model_name = <<>>
    /\ new_names = <<>>
    /\ index_map = <<>>
    /\ index_built = FALSE
    /\ models_map = <<>>
    /\ api_reads = {}
    /\ calls = 0

\* the callback of train --name runs on a value
ValidateName ==
    /\ Cardinality(accepted_names) < MaxCalls
    /\ \E value \in ValidateModelNames :
         IF _validate_name(TrainNamePrefix, TRAIN_NAME_LENGTH_LIMIT, value)
         THEN /\ accepted_names' = accepted_names \cup {value}
              /\ outcome' = [code |-> 0, message |-> "accepted"]
         ELSE /\ outcome' = BadParameter
              /\ UNCHANGED accepted_names
    /\ UNCHANGED <<platform_vars, model_name, new_names, index_map, models_map,
                   api_reads, index_built, calls, dataset_exists, secrets, run_created>>

\* a deployment is created under the generated name for an accepted name
DeployAcceptedName ==
    /\ Len(deployments) < MaxDeployments
    /\ \E name \in accepted_names, random_string \in RandomStrings :
         LET deployment_name ==
                 _generate_model_deployment_name(name, deployments, random_string)
         IN  /\ deployments' = Append(deployments, Ready1(deployment_name))
             /\ run_created' = run_created
                    \cup {[deployment |-> deployment_name, model |-> name]}
    /\ UNCHANGED <<tuna_folder_exists, model_path_exists, dir_infos, jobs,
                   model_name, new_names, index_map, models_map, api_reads,
                   index_built, calls, dataset_exists, secrets, outcome,
                   accepted_names>>

NextValidate == ValidateName \/ DeployAcceptedName

SpecValidate == InitValidate /\ [][NextValidate]_vars

-----------------------------------------------------------------------------
(* Claims about the accepted names (SpecValidate). *)

\* C19: for every name that the validator of train --name accepted, the
\* candidate of every counter 0..998 is "tuna-" + name + "-" + counter with
\* nothing cut off, and is indexed under the key by which the model is looked
\* up, name[:32 - len("tuna-")], and under the key of no other accepted name
\* (so that no candidate is a candidate of two accepted names); two distinct
\* accepted names have distinct keys, and every deployment created for an
\* accepted name is indexed under that name's key and was created for no
\* other name.
C19_AcceptedNamesKeepTheirKey ==
    /\ \A n \in accepted_names :
           \A c \in 0..998 :
               LET cand == Candidate(TUNA_DEPLOYMENT_NAME_PREFIX \o n, c)
                   key == ShortenedModelName(cand)
               IN  /\ cand = <<"t", "u", "n", "a", "-">> \o n \o <<"-">> \o Str(c)
                   /\ key = Take(n, 32 - 5)
                   /\ \A m \in accepted_names \ {n} : key # Take(m, 32 - 5)
    /\ \A n, m \in accepted_names : n # m => Take(n, 32 - 5) # Take(m, 32 - 5)
    /\ \A r, q \in run_created :
           /\ ShortenedModelName(r.deployment) = Take(r.model, 32 - 5)
           /\ r.deployment = q.deployment => r.model = q.model

\* the longest accepted name and a name ending like a counter of the short
\* model are accepted, and a deployment was created for each
C19_Witness ==
    /\ accepted_names = {NameOf(26, 0), HyphenModel}
    /\ run_created =
           {[deployment |-> <<"t", "u", "n", "a", "-">> \o NameOf(26, 0) \o <<"-", "0">>,
             model |-> NameOf(26, 0)],
            [deployment |-> <<"t", "u", "n", "a", "-", "a", "-", "0", "-", "0">>,
             model |-> HyphenModel]}

-----------------------------------------------------------------------------
(* The commands train, run, remove and clear_failed_trainings. *)

\* sys.exit(1) after the message
Exit1(message) == [code |-> 1, message |-> message]

\* the command returns after the message
Done(message) == [code |-> 0, message |-> message]

\* client.storage.check_exists(_generate_model_output_path(name))
ModelOutputPathExists(infos, name) == \E i \in 1..Len(infos) : infos[i].name = name

\* some job of the inventory has job.metadata.name == job_name
JobExists(js, job_name) == \E j \in 1..Len(js) : js[j].name = job_name

\* mutant of TrainCollision: the job inventory is not searched
TrainCollisionPathOnly(infos, js, name) ==
    IF ModelOutputPathExists(infos, name) THEN "already exist" ELSE "none"

\* the two exits of train before anything is created
TrainCollision(infos, js, name) ==
    IF ModelOutputPathExists(infos, name) THEN "already exist"
    ELSE IF JobExists(js, _generate_job_name(name)) THEN "The job already exists"
    ELSE "none"

\* deployment.split(" ")[0]
FirstField(s) ==
    IF \E i \in 1..Len(s) : s[i] = " "
    THEN SubSeq(s, 1, (CHOOSE i \in 1..Len(s) :
                           s[i] = " " /\ \A j \in 1..(i - 1) : s[j] # " ") - 1)
    ELSE s

\* the names that remove hands to deployment_remove
DeploymentsToRemove(cur_tuna_model) ==
    IF cur_tuna_model.deployments # None /\ Len(cur_tuna_model.deployments) > 0
    THEN {FirstField(cur_tuna_model.deployments[i]) :
             i \in 1..Len(cur_tuna_model.deployments)}
    ELSE {}

\* mutant of ClearStep: the job named after the model is removed whether or
\* not the record carries a job name
ClearStepAnyJob(storage_jobs, tuna_model) ==
    IF tuna_model.tuna_model_state = TrainFailed
    THEN [infos |-> SelectSeq(storage_jobs.infos,
                              LAMBDA e : e.name # tuna_model.folder_name),
          js |-> SelectSeq(storage_jobs.js,
                           LAMBDA j : j.name # _generate_job_name(tuna_model.folder_name))]
    ELSE storage_jobs

\* the body of the loop of clear_failed_trainings on the listing and the job
\* inventory
ClearStep(storage_jobs, tuna_model) ==
    IF tuna_model.tuna_model_state = TrainFailed
    THEN [infos |-> SelectSeq(storage_jobs.infos,
                              LAMBDA e : e.name # tuna_model.folder_name),
          js |-> IF tuna_model.job_name # None
                 THEN SelectSeq(storage_jobs.js,
                                LAMBDA j : j.name # tuna_model.job_name)
                 ELSE storage_jobs.js]
    ELSE storage_jobs

RECURSIVE ClearLoop(_, _, _)
ClearLoop(map, k, storage_jobs) ==
    IF k > Len(map) THEN storage_jobs
    ELSE ClearLoop(map, k + 1, ClearStep(storage_jobs, map[k]))

-----------------------------------------------------------------------------
(* Specification of the commands: a fresh workspace, the commands of the   *)
(* user and the steps of the platform (the training job runs, writes its   *)
(* output and ends, a deployment stops).                                    *)

DynModelNames == {ShortModel, HyphenModel}

\* the names given to train: the two models and a name that is too long
TrainNames == DynModelNames \cup {NameOf(LongestTrainName + 1, 0)}

\* the secret of the workspace and a name that is no secret of it
HfToken == "hf-token"
OtherToken == "other-token"
Tokens == {HfToken, OtherToken}

UserInputs == {"yes", "no"}

Init ==
    /\ tuna_folder_exists = FALSE
    /\ model_path_exists = FALSE
    /\ dataset_exists = FALSE
    /\ dir_infos = <<>>
    /\ jobs = <<>>
    /\ deployments = <<>>
    /\ secrets = {HfToken}
    /\ outcome = NoOutcome
    /\ run_created = {}
    /\ accepted_names = {}
    /\ model_name = <<>>
    /\ new_names = <<>>
    /\ index_map = <<>>
    /\ index_built = FALSE
    /\ models_map = <<>>
    /\ api_reads = {}
    /\ calls = 0

\* what no command and no platform step of this specification changes
fixed_vars == <<secrets, accepted_names, model_name, new_names, index_map,
                index_built, models_map, api_reads, calls>>

\* upload_data: the folder tree is made, the data file is uploaded unless it
\* is there already
UploadData ==
    /\ tuna_folder_exists' = TRUE
    /\ model_path_exists' = TRUE
    /\ IF dataset_exists
       THEN /\ outcome' = Exit1("already exists")
            /\ UNCHANGED dataset_exists
       ELSE /\ dataset_exists' = TRUE
            /\ outcome' = Done("Uploaded Dataset")
    /\ UNCHANGED <<dir_infos, jobs, deployments, run_created, fixed_vars>>

Train(name) ==
    /\ IF ~_validate_name(TrainNamePrefix, TRAIN_NAME_LENGTH_LIMIT, name)
       THEN /\ outcome' = BadParameter
            /\ UNCHANGED <<dir_infos, jobs>>
       ELSE IF ~dataset_exists
       THEN /\ outcome' = Exit1("not found")
            /\ UNCHANGED <<dir_infos, jobs>>
       ELSE LET collision == TrainCollision(dir_infos, jobs, name)
            IN  IF collision # "none"
                THEN /\ outcome' = Exit1(collision)
                     /\ UNCHANGED <<dir_infos, jobs>>
                ELSE \* create_dir, the upload of the info file, job_create
                     /\ dir_infos' = Append(dir_infos,
                            [name |-> name, type |-> "dir", entries |-> 1])
                     /\ jobs' = Append(jobs, [name |-> _generate_job_name(name),
                                              status |-> "Starting"])
                     /\ outcome' = Done("created successfully")
    /\ UNCHANGED <<tuna_folder_exists, model_path_exists, dataset_exists,
                   deployments, run_created, fixed_vars>>

\* the platform starts a job, and a running job completes or fails
JobProgress ==
    /\ \E j \in 1..Len(jobs) :
         \/ /\ jobs[j].status = "Starting"
            /\ jobs' = [jobs EXCEPT ![j].status = "Running"]
         \/ /\ jobs[j].status = "Running"
            /\ \E status \in {"Completed", "Failed"} :
                 jobs' = [jobs EXCEPT ![j].status = status]
    /\ UNCHANGED <<tuna_folder_exists, model_path_exists, dataset_exists, dir_infos,
                   deployments, outcome, run_created, fixed_vars>>

\* a running training job writes a file into its --output_dir
WriteOutput ==
    /\ \E i \in 1..Len(dir_infos) :
         /\ \E j \in 1..Len(jobs) :
              /\ jobs[j].name = _generate_job_name(dir_infos[i].name)
              /\ jobs[j].status = "Running"
         /\ dir_infos[i].entries + 1 \in DirEntryCounts
         /\ dir_infos' = [dir_infos EXCEPT ![i].entries = @ + 1]
    /\ UNCHANGED <<tuna_folder_exists, model_path_exists, dataset_exists, jobs,
                   deployments, outcome, run_created, fixed_vars>>

Run(name, huggingface_token) ==
    /\ tuna_folder_exists' = TRUE
    /\ model_path_exists' = TRUE
    /\ LET names == _get_model_names(dir_infos)
       IN  IF ~(\E i \in 1..Len(names) : names[i] = name)
           THEN /\ outcome' = Exit1("is not exist")
                /\ UNCHANGED <<deployments, run_created>>
           ELSE IF ~_model_train_completed(dir_infos, name)
           THEN /\ outcome' = Exit1("is either training or the training has failed")
                /\ UNCHANGED <<deployments, run_created>>
           ELSE IF huggingface_token \notin secrets
           THEN /\ outcome' = Exit1("not exist in your secret")
                /\ UNCHANGED <<deployments, run_created>>
           ELSE /\ Len(deployments) < MaxRunDeployments
                /\ \E random_string \in RandomStrings :
                     LET deployment_name ==
                             _generate_model_deployment_name(name, deployments,
                                                             random_string)
                     IN  /\ deployments' = Append(deployments,
                                [name |-> deployment_name, status |-> "Starting"])
                         /\ run_created' = run_created
                                \cup {[deployment |-> deployment_name, model |-> name]}
                /\ outcome' = Done("deployment created")
    /\ UNCHANGED <<dataset_exists, dir_infos, jobs, fixed_vars>>

\* the platform stops a deployment
DeploymentStops ==
    /\ \E d \in 1..Len(deployments) :
         /\ deployments[d].status \in RunningDeploymentStates
         /\ deployments' = [deployments EXCEPT ![d].status = "Stopped"]
    /\ UNCHANGED <<tuna_folder_exists, model_path_exists, dataset_exists, dir_infos,
                   jobs, outcome, run_created, fixed_vars>>

\* user_input is the answer after .strip().lower()
Remove(name, user_input) ==
    /\ LET got == _get_models_map(tuna_folder_exists, model_path_exists,
                                  dir_infos, jobs, deployments).result
       IN  IF ~(\E k \in 1..Len(got) : got[k].folder_name = name)
           THEN /\ outcome' = Exit1("not found")
                /\ UNCHANGED <<dir_infos, jobs, deployments, run_created>>
           ELSE LET cur_tuna_model ==
                        got[CHOOSE k \in 1..Len(got) : got[k].folder_name = name]
                    to_remove == DeploymentsToRemove(cur_tuna_model)
                    asked == \/ to_remove # {}
                             \/ _model_train_completed(dir_infos, name)
                    job_name == _generate_job_name(name)
                IN  IF asked /\ user_input \notin {"yes", "y"}
                    THEN /\ outcome' = Done("not deleted")
                         /\ UNCHANGED <<dir_infos, jobs, deployments, run_created>>
                    ELSE /\ jobs' = SelectSeq(jobs, LAMBDA j : j.name # job_name)
                         /\ deployments' = SelectSeq(deployments,
                                LAMBDA d : d.name \notin to_remove)
                         /\ run_created' =
                                {r \in run_created : r.deployment \notin to_remove}
                         /\ dir_infos' = SelectSeq(dir_infos, LAMBDA e : e.name # name)
                         /\ outcome' = Done("deleted successfully")
    /\ UNCHANGED <<tuna_folder_exists, model_path_exists, dataset_exists, fixed_vars>>

ClearFailedTrainings ==
    /\ outcome' = Done("failed trainings deleted")
    /\ LET got == _get_models_map(tuna_folder_exists, model_path_exists,
                                  dir_infos, jobs, deployments).result
           left == ClearLoop(got, 1, [infos |-> dir_infos, js |-> jobs])
       IN  /\ dir_infos' = left.infos
           /\ jobs' = left.js
    /\ UNCHANGED <<tuna_folder_exists, model_path_exists, dataset_exists,
                   deployments, run_created, fixed_vars>>

Next ==
    \/ UploadData
    \/ \E name \in TrainNames : Train(name)
    \/ JobProgress
    \/ WriteOutput
    \/ \E name \in DynModelNames, huggingface_token \in Tokens :
         Run(name, huggingface_token)
    \/ DeploymentStops
    \/ \E name \in DynModelNames, user_input \in UserInputs : Remove(name, user_input)
    \/ ClearFailedTrainings

Spec == Init /\ [][Next]_vars

-----------------------------------------------------------------------------
(* Claims about the commands (Spec). *)

\* the states that _get_models_map reports for the model on the workspace as
\* it is
ReportedStates(name) ==
    LET got == _get_models_map(tuna_folder_exists, model_path_exists,
                               dir_infos, jobs, deployments).result
    IN  {got[k].tuna_model_state :
            k \in {n \in 1..Len(got) : got[n].folder_name = name}}

\* C14: a train step for a name whose output path is in storage, or whose
\* job name is in the job inventory, exits with an error and leaves the
\* listing (no directory made, no info file uploaded) and the job inventory
\* as they were.
C14_TrainCollisionCreatesNothing ==
    [][\A name \in TrainNames :
          (/\ Train(name)
           /\ \/ \E i \in 1..Len(dir_infos) : dir_infos[i].name = name
              \/ \E j \in 1..Len(jobs) :
                     jobs[j].name = TUNA_TRAIN_JOB_NAME_PREFIX \o name)
          => /\ outcome'.code # 0
             /\ dir_infos' = dir_infos
             /\ jobs' = jobs]_vars

\* train has just refused a name because its job is in the inventory, and no
\* directory exists: the job is the only thing of the model left
C14_Witness ==
    /\ outcome = [code |-> 1, message |-> "The job already exists"]
    /\ dir_infos = <<>>
    /\ Len(jobs) = 1

\* C16 (as claimed): after a remove step that deletes the model, the model's
\* directory is not in the listing, no job of its job name is in the job
\* inventory, and no deployment that run created for the model is in the
\* deployment inventory.
C16_RemoveLeavesNothing ==
    [][\A name \in DynModelNames :
          (Remove(name, "yes") /\ outcome'.message = "deleted successfully")
          => /\ \A i \in 1..Len(dir_infos') : dir_infos'[i].name # name
             /\ \A j \in 1..Len(jobs') :
                    jobs'[j].name # TUNA_TRAIN_JOB_NAME_PREFIX \o name
             /\ \A d \in 1..Len(deployments') :
                    [deployment |-> deployments'[d].name, model |-> name]
                        \notin run_created]_vars

\* C17 (as claimed): a run step that creates a deployment is for a name that
\* is a directory of the models root, with a secret that exists, and for a
\* model that the aggregation reports as Ready, Running or Stopped.
C17_RunOnlyDeploysTrainedModel ==
    [][\A name \in DynModelNames, huggingface_token \in Tokens :
          (Run(name, huggingface_token) /\ Len(deployments') > Len(deployments))
          => /\ \E i \in 1..Len(dir_infos) :
                    dir_infos[i].name = name /\ dir_infos[i].type = "dir"
             /\ huggingface_token \in secrets
             /\ ReportedStates(name) # {}
             /\ ReportedStates(name) \subseteq {"Ready", "Running", "Stopped"}]_vars

\* C18: a clear_failed_trainings step keeps exactly the directories of the
\* models whose reported state is not TrainFailed, removes a job only if a
\* TrainFailed model's record carries its name, leaves the job of every model
\* reported Training, Ready, Running or Stopped in place, and does not touch
\* the deployment inventory.
C18_ClearFailedFrame ==
    [][ClearFailedTrainings =>
          LET got == _get_models_map(tuna_folder_exists, model_path_exists,
                                     dir_infos, jobs, deployments).result
          IN  /\ dir_infos' = SelectSeq(dir_infos,
                     LAMBDA e : "Train Failed" \notin ReportedStates(e.name))
              /\ deployments' = deployments
              /\ jobs' = SelectSeq(jobs,
                     LAMBDA j : \E k \in 1..Len(jobs') : jobs'[k] = j)
              /\ \A j \in 1..Len(jobs) :
                     (\A k \in 1..Len(jobs') : jobs'[k] # jobs[j])
                     => \E r \in 1..Len(got) :
                            /\ got[r].tuna_model_state = "Train Failed"
                            /\ got[r].job_name = jobs[j].name
              /\ \A name \in DynModelNames :
                     (/\ ReportedStates(name) # {}
                      /\ "Train Failed" \notin ReportedStates(name))
                     => \A j \in 1..Len(jobs) :
                            jobs[j].name = TUNA_TRAIN_JOB_NAME_PREFIX \o name
                            => \E k \in 1..Len(jobs') : jobs'[k] = jobs[j]]_vars

\* failed trainings have just been cleared: the trained model with a
\* deployment is still there, and of the short model only its completed job,
\* which its record did not carry, is left
C18_Witness ==
    /\ outcome = [code |-> 0, message |-> "failed trainings deleted"]
    /\ dir_infos = <<[name |-> HyphenModel, type |-> "dir", entries |-> 2]>>
    /\ \E j \in 1..Len(jobs) :
           jobs[j] = [name |-> _generate_job_name(ShortModel), status |-> "Completed"]
    /\ \E d \in 1..Len(deployments) :
           deployments[d].name = DeploymentName(HyphenModel, 0)

====
